---------------------------- MODULE Spec2Model ----------------------------
(***************************************************************************)
(* Model of the Arc-Raiders-Upgrades item browser (src/script.js): the CSV *)
(* decoder, the record normalizer, the aggregator, the match engine and    *)
(* the page that loads the data and serves queries.                        *)
(*                                                                         *)
(* A JavaScript string is a sequence of one-character strings, so that     *)
(* trimming, lower-casing, splitting, joining and prefix tests are         *)
(* computed character by character as the code computes them.              *)
(***************************************************************************)
EXTENDS Integers, Sequences, FiniteSets, TLC

VARIABLES
    call,             \* a call of one of the pure functions: [fn, args, done, ret]
    pc,               \* position of main(): "start", "fetching", "reading", "ready", "failed"
    csvFetch,         \* fetch("items.csv"): "pending", "ok", "http_error", "rejected"
    jsonFetch,        \* fetch("items.json"): the same
    csvText,          \* the body of items.csv
    jsonData,         \* the parsed body of items.json (its data array), or "invalid"
    ITEMS,            \* let ITEMS
    GROUPED_ITEMS,    \* let GROUPED_ITEMS
    JSON_DATA_MAP,    \* let JSON_DATA_MAP
    dataLoaded,       \* let dataLoaded
    loadFailed,       \* let loadFailed
    activeFilterKey,  \* let activeFilterKey
    lastQuery,        \* let lastQuery
    triggerSearch,    \* let triggerSearch: "null" or "doSearch"
    qEl,              \* the input element: [value, disabled, listening]
    resultsEl,        \* the results element: [kind, text, list]
    hist              \* the last two operations on the page (history, not program state)

vars == << call, pc, csvFetch, jsonFetch, csvText, jsonData, ITEMS, GROUPED_ITEMS,
           JSON_DATA_MAP, dataLoaded, loadFailed, activeFilterKey, lastQuery,
           triggerSearch, qEl, resultsEl, hist >>

pageVars == << pc, csvFetch, jsonFetch, csvText, jsonData, ITEMS, GROUPED_ITEMS,
               JSON_DATA_MAP, dataLoaded, loadFailed, activeFilterKey, lastQuery,
               triggerSearch, qEl, resultsEl, hist >>

-----------------------------------------------------------------------------
(* Characters and strings *)

DQ == "\""
LF == "\n"
CR == "\r"
SP == " "
EmptyStr == << >>

\* The element of a one-element set. The({F(x) : x \in {e}}) is F(e) with e
\* evaluated once, as a local variable of the code is.
The(S) == CHOOSE x \in S : TRUE

\* The characters String.prototype.trim and the regular expression \s treat as white space.
IsSpace(c) == c \in {SP, LF, CR, "\t"}

UpperLetters ==
    <<"A", "B", "C", "D", "E", "F", "G", "H", "I", "J", "K", "L", "M",
      "N", "O", "P", "Q", "R", "S", "T", "U", "V", "W", "X", "Y", "Z">>

LowerLetters ==
    <<"a", "b", "c", "d", "e", "f", "g", "h", "i", "j", "k", "l", "m",
      "n", "o", "p", "q", "r", "s", "t", "u", "v", "w", "x", "y", "z">>

LowerOf ==
    [c \in {UpperLetters[i] : i \in 1..26} |->
        LowerLetters[CHOOSE i \in 1..26 : UpperLetters[i] = c]]

UpperOf ==
    [c \in {LowerLetters[i] : i \in 1..26} |->
        UpperLetters[CHOOSE i \in 1..26 : LowerLetters[i] = c]]

\* String.prototype.toLowerCase on one character.
LowerChar(c) == IF c \in DOMAIN LowerOf THEN LowerOf[c] ELSE c

\* String.prototype.toUpperCase on one character.
UpperChar(c) == IF c \in DOMAIN UpperOf THEN UpperOf[c] ELSE c

toLowerCase(s) == [i \in 1..Len(s) |-> LowerChar(s[i])]

RECURSIVE trimStart(_)
trimStart(s) ==
    IF s # << >> /\ IsSpace(Head(s)) THEN trimStart(Tail(s)) ELSE s

RECURSIVE trimEnd(_)
trimEnd(s) ==
    IF s # << >> /\ IsSpace(s[Len(s)]) THEN trimEnd(SubSeq(s, 1, Len(s) - 1)) ELSE s

\* String.prototype.trim
trim(s) == trimEnd(trimStart(s))

\* String.prototype.startsWith
startsWith(s, p) == Len(p) <= Len(s) /\ SubSeq(s, 1, Len(p)) = p

\* Array.prototype.includes
includes(list, v) == \E i \in 1..Len(list) : list[i] = v

\* Array.prototype.join
RECURSIVE join(_, _)
join(list, sep) ==
    IF list = << >> THEN << >>
    ELSE IF Len(list) = 1 THEN list[1]
    ELSE list[1] \o sep \o The({join(rest, sep) : rest \in {Tail(list)}})

\* The elements of a sequence
Range(s) == {s[i] : i \in 1..Len(s)}

-----------------------------------------------------------------------------
(* parseCSV *)

\* The locals of parseCSV: rows, row, field, inQuotes and the index i (1-based).
ParseStart == [rows |-> << >>, row |-> << >>, field |-> << >>, inQuotes |-> FALSE, i |-> 1]

pushField(st) == [st EXCEPT !.row = Append(st.row, st.field), !.field = << >>]

pushRow(st) == [st EXCEPT !.rows = Append(st.rows, st.row), !.row = << >>]

\* A carriage return outside quotes is appended to the field instead of being skipped.
parseStepKeepsCR(text, st) ==
    LET c == text[st.i]
        next == [st EXCEPT !.i = st.i + 1]
    IN  IF st.inQuotes
        THEN IF c = DQ
             THEN IF st.i + 1 <= Len(text) /\ text[st.i + 1] = DQ
                  THEN [st EXCEPT !.field = Append(st.field, DQ), !.i = st.i + 2]
                  ELSE [next EXCEPT !.inQuotes = FALSE]
             ELSE [next EXCEPT !.field = Append(st.field, c)]
        ELSE IF c = DQ THEN [next EXCEPT !.inQuotes = TRUE]
             ELSE IF c = "," THEN pushField(next)
             ELSE IF c = LF THEN pushRow(pushField(next))
             ELSE [next EXCEPT !.field = Append(st.field, c)]

\* The escaped quote is appended but the second quote of the pair is not skipped.
parseStepNoSkip(text, st) ==
    LET c == text[st.i]
        next == [st EXCEPT !.i = st.i + 1]
    IN  IF st.inQuotes
        THEN IF c = DQ
             THEN IF st.i + 1 <= Len(text) /\ text[st.i + 1] = DQ
                  THEN [next EXCEPT !.field = Append(st.field, DQ)]
                  ELSE [next EXCEPT !.inQuotes = FALSE]
             ELSE [next EXCEPT !.field = Append(st.field, c)]
        ELSE IF c = DQ THEN [next EXCEPT !.inQuotes = TRUE]
             ELSE IF c = "," THEN pushField(next)
             ELSE IF c = LF THEN pushRow(pushField(next))
             ELSE IF c = CR THEN next
             ELSE [next EXCEPT !.field = Append(st.field, c)]

\* One iteration of the while loop: the character at i, then i++.
parseStep(text, st) ==
    LET c == text[st.i]
        next == [st EXCEPT !.i = st.i + 1]
    IN  IF st.inQuotes
        THEN IF c = DQ
             THEN IF st.i + 1 <= Len(text) /\ text[st.i + 1] = DQ
                  THEN [st EXCEPT !.field = Append(st.field, DQ), !.i = st.i + 2]
                  ELSE [next EXCEPT !.inQuotes = FALSE]
             ELSE [next EXCEPT !.field = Append(st.field, c)]
        ELSE IF c = DQ THEN [next EXCEPT !.inQuotes = TRUE]
             ELSE IF c = "," THEN pushField(next)
             ELSE IF c = LF THEN pushRow(pushField(next))
             ELSE IF c = CR THEN next
             ELSE [next EXCEPT !.field = Append(st.field, c)]

\* n iterations of while (i < text.length) { ... }, fewer if the loop ends before.
RECURSIVE parseSteps(_, _, _)
parseSteps(text, st, n) ==
    IF n = 0 THEN st
    ELSE IF n = 1 THEN IF st.i <= Len(text) THEN parseStep(text, st) ELSE st
    ELSE The({parseSteps(text, half, n - n \div 2) :
                 half \in {parseSteps(text, st, n \div 2)}})

\* while (i < text.length) { ... }: every iteration advances i, so the loop ends
\* within text.length iterations.
parseLoop(text, st) == parseSteps(text, st, Len(text))

\* The last field/row, and the result.
parseCSV(text) ==
    LET st == parseLoop(text, ParseStart)
    IN  IF Len(st.field) > 0 \/ Len(st.row) > 0
        THEN pushRow(pushField(st)).rows
        ELSE st.rows

-----------------------------------------------------------------------------
(* The page before main() has run; the specifications of the pure functions *)
(* leave it there.                                                          *)

NoCall == [fn |-> "none", args |-> << >>, done |-> FALSE, ret |-> << >>]

Pending(fn, args) == [fn |-> fn, args |-> args, done |-> FALSE, ret |-> << >>]

PageStart ==
    /\ pc = "start"
    /\ csvFetch = "pending"
    /\ jsonFetch = "pending"
    /\ dataLoaded = FALSE
    /\ loadFailed = FALSE
    /\ activeFilterKey = EmptyStr
    /\ lastQuery = EmptyStr
    /\ triggerSearch = "null"
    /\ qEl = [value |-> EmptyStr, disabled |-> FALSE, listening |-> FALSE]
    /\ resultsEl = [kind |-> "empty", text |-> EmptyStr, list |-> << >>]
    /\ hist = << >>

\* No data has been fetched or decoded.
NoData ==
    /\ csvText = EmptyStr
    /\ jsonData = << >>
    /\ ITEMS = << >>
    /\ GROUPED_ITEMS = << >>
    /\ JSON_DATA_MAP = << >>

\* All strings over an alphabet up to a length.
StringsUpTo(alphabet, n) == UNION {[1..k -> alphabet] : k \in 0..n}

-----------------------------------------------------------------------------
(* Specification of parseCSV: a text is chosen, parseCSV decodes it. *)

MaxTextLen == 5

CsvAlphabet == {"a", ",", DQ, LF, CR}

InitCSV ==
    /\ call \in {Pending("parseCSV", <<t>>) : t \in StringsUpTo(CsvAlphabet, MaxTextLen)}
    /\ NoData
    /\ PageStart

CallParseCSV ==
    /\ call.fn = "parseCSV"
    /\ ~call.done
    /\ call' = [call EXCEPT !.done = TRUE, !.ret = parseCSV(call.args[1])]
    /\ UNCHANGED pageVars

NextCSV == CallParseCSV

SpecCSV == InitCSV /\ [][NextCSV]_vars

Decoded == call.fn = "parseCSV" /\ call.done

\* The states the while loop of parseCSV goes through on a text.
RECURSIVE parseTrace(_, _)
parseTrace(text, st) ==
    IF st.i <= Len(text)
    THEN <<st>> \o The({parseTrace(text, next) : next \in {parseStep(text, st)}})
    ELSE << >>

StripCR(text) == SelectSeq(text, LAMBDA c : c # CR)

HasCRField(rows) ==
    \E r \in 1..Len(rows) : \E f \in 1..Len(rows[r]) : CR \in Range(rows[r][f])

\* Some carriage return of the text is read while inQuotes.
CRInsideQuotes(text) ==
    LET tr == parseTrace(text, ParseStart)
    IN  \E k \in 1..Len(tr) : tr[k].inQuotes /\ text[tr[k].i] = CR

\* A closing quote is followed by carriage returns and then by a quote: without
\* the carriage returns the two quotes would read as an escaped quote.
CRBetweenQuotes(text) ==
    LET tr == parseTrace(text, ParseStart)
    IN  \E k \in 1..Len(tr) :
          /\ tr[k].inQuotes
          /\ text[tr[k].i] = DQ
          /\ \E j \in (tr[k].i + 2)..Len(text) :
                /\ text[j] = DQ
                /\ \A m \in (tr[k].i + 1)..(j - 1) : text[m] = CR

\* C9 as stated: carriage returns are ignored unconditionally, so decoding a text
\* equals decoding it with every carriage return removed, and no decoded field
\* contains a carriage return.
C9_CRIgnoredUnconditionally ==
    Decoded =>
        /\ call.ret = parseCSV(StripCR(call.args[1]))
        /\ ~HasCRField(call.ret)

\* C9 amended: a carriage return is ignored only outside double quotes. When no
\* carriage return of the text is inside a quoted field, no decoded field contains
\* one, and (unless carriage returns sit between a closing quote and another quote)
\* decoding equals decoding the text without its carriage returns; a carriage
\* return inside a quoted field is kept in the field.
C9_CRIgnoredOutsideQuotes ==
    Decoded =>
        LET text == call.args[1]
        IN  /\ ~CRInsideQuotes(text) => ~HasCRField(call.ret)
            /\ (~CRInsideQuotes(text) /\ ~CRBetweenQuotes(text))
                  => call.ret = parseCSV(StripCR(text))
            /\ CRInsideQuotes(text) => HasCRField(call.ret)

\* A decoded text with a quoted field and a carriage return outside the quotes.
C9_Witness ==
    /\ Decoded
    /\ CR \in Range(call.args[1])
    /\ DQ \in Range(call.args[1])
    /\ ~CRInsideQuotes(call.args[1])
    /\ ~CRBetweenQuotes(call.args[1])
    /\ Len(call.ret) >= 1


\* The encoder of the round trip: a field containing a quote, a comma or a newline
\* (line-feed or carriage-return) is wrapped in double quotes with its quotes
\* doubled; fields are joined by commas and rows by line-feeds.
RECURSIVE DoubleQuotes(_)
DoubleQuotes(f) ==
    IF f = << >> THEN << >>
    ELSE (IF Head(f) = DQ THEN <<DQ, DQ>> ELSE <<Head(f)>>) \o DoubleQuotes(Tail(f))

EncodeField(f) ==
    IF Range(f) \cap {DQ, ",", LF, CR} # {}
    THEN <<DQ>> \o DoubleQuotes(f) \o <<DQ>>
    ELSE f

EncodeRow(row) == join([k \in 1..Len(row) |-> EncodeField(row[k])], <<",">>)

EncodeCSV(rows) == join([r \in 1..Len(rows) |-> EncodeRow(rows[r])], <<LF>>)

\* C10 as stated: decoding, re-encoding and decoding again yields the same rows
\* and fields, for every input text.
C10_RoundTrip ==
    Decoded => parseCSV(EncodeCSV(call.ret)) = call.ret

\* The last decoded row is a single empty field (a blank last line).
LastRowBlank(rows) == rows # << >> /\ rows[Len(rows)] = << << >> >>

\* C10 amended: decoding, re-encoding and decoding again yields the same rows and
\* fields whenever the last decoded row is not a single empty field; when it is,
\* the second decoding yields the same rows without that last row.
C10_RoundTripUnlessLastRowBlank ==
    Decoded =>
        LET again == parseCSV(EncodeCSV(call.ret))
        IN  IF LastRowBlank(call.ret)
            THEN again = SubSeq(call.ret, 1, Len(call.ret) - 1)
            ELSE again = call.ret

\* A decoded text of two rows with a field that the encoder has to quote.
C10_Witness ==
    /\ Decoded
    /\ Len(call.ret) >= 2
    /\ ~LastRowBlank(call.ret)
    /\ \E r \in 1..Len(call.ret) : \E f \in 1..Len(call.ret[r]) :
          Range(call.ret[r][f]) \cap {DQ, ",", LF} # {}

-----------------------------------------------------------------------------
(* normalizeQuantity *)

Digits == {"0", "1", "2", "3", "4", "5", "6", "7", "8", "9"}

DigitValue ==
    [d \in Digits |->
        CASE d = "0" -> 0 [] d = "1" -> 1 [] d = "2" -> 2 [] d = "3" -> 3 [] d = "4" -> 4
          [] d = "5" -> 5 [] d = "6" -> 6 [] d = "7" -> 7 [] d = "8" -> 8 [] d = "9" -> 9]

\* \d+
IsDigits(s) == s # << >> /\ \A i \in 1..Len(s) : s[i] \in Digits

\* The number a run of decimal digits denotes.
RECURSIVE DecimalValue(_)
DecimalValue(s) ==
    IF s = << >> THEN 0
    ELSE 10 * DecimalValue(SubSeq(s, 1, Len(s) - 1)) + DigitValue[s[Len(s)]]

RECURSIVE Pow10(_)
Pow10(n) == IF n = 0 THEN 1 ELSE 10 * Pow10(n - 1)

\* s.match(/^(\d+(?:\.\d+)?)k$/): the captured number as [int, frac] digit runs
\* (frac empty when there is no fraction), or no match.
matchK(s) ==
    IF Len(s) >= 2 /\ s[Len(s)] = "k"
    THEN LET body == SubSeq(s, 1, Len(s) - 1)
             dots == {p \in 1..Len(body) : body[p] = "."}
         IN  IF IsDigits(body)
             THEN [matched |-> TRUE, int |-> body, frac |-> << >>]
             ELSE IF /\ Cardinality(dots) = 1
                     /\ LET p == CHOOSE p \in dots : TRUE
                        IN  /\ IsDigits(SubSeq(body, 1, p - 1))
                            /\ IsDigits(SubSeq(body, p + 1, Len(body)))
                  THEN LET p == CHOOSE p \in dots : TRUE
                       IN  [matched |-> TRUE, int |-> SubSeq(body, 1, p - 1),
                            frac |-> SubSeq(body, p + 1, Len(body))]
                  ELSE [matched |-> FALSE, int |-> << >>, frac |-> << >>]
    ELSE [matched |-> FALSE, int |-> << >>, frac |-> << >>]

\* Math.round(parseFloat(k[1]) * 1000): the nearest integer, halves upwards. The
\* double product is within one unit in the last place of the decimal product, so the two
\* agree whenever the decimal product is not within that distance of a half, as for
\* every number of at most three fraction digits.
roundTimes1000(int, frac) ==
    LET scale == Pow10(Len(frac))
        num == (DecimalValue(int) * scale + DecimalValue(frac)) * 1000
    IN  (2 * num + scale) \div (2 * scale)

\* The length of the run of digits at the start of s.
RECURSIVE leadingDigits(_)
leadingDigits(s) ==
    IF s # << >> /\ Head(s) \in Digits THEN 1 + leadingDigits(Tail(s)) ELSE 0

\* parseInt that accepts a string only if all of it is an integer.
parseIntWholeString(s) ==
    LET signed == s # << >> /\ Head(s) \in {"+", "-"}
        rest == IF signed THEN Tail(s) ELSE s
    IN  IF ~IsDigits(rest) THEN [nan |-> TRUE, value |-> 0]
        ELSE [nan |-> FALSE,
              value |-> IF signed /\ Head(s) = "-"
                        THEN 0 - DecimalValue(rest)
                        ELSE DecimalValue(rest)]

\* parseInt(s, 10) of a trimmed string: an optional sign, then the longest run of
\* digits; what follows the digits is ignored; NaN when there is no digit.
parseInt(s) ==
    LET signed == s # << >> /\ Head(s) \in {"+", "-"}
        rest == IF signed THEN Tail(s) ELSE s
        n == leadingDigits(rest)
    IN  IF n = 0 THEN [nan |-> TRUE, value |-> 0]
        ELSE [nan |-> FALSE,
              value |-> IF signed /\ Head(s) = "-"
                        THEN 0 - DecimalValue(SubSeq(rest, 1, n))
                        ELSE DecimalValue(SubSeq(rest, 1, n))]

normalizeQuantity(q) ==
    LET s == toLowerCase(trim(q))
        k == matchK(s)
        n == parseInt(s)
    IN  IF s = << >> THEN 0
        ELSE IF k.matched THEN roundTimes1000(k.int, k.frac)
        ELSE IF n.nan THEN 0 ELSE n.value

-----------------------------------------------------------------------------
(* Specification of normalizeQuantity: a quantity string is chosen and normalized. *)

MaxQuantityLen == 5

QuantityAlphabet == {"1", "5", ".", "k", "K", "-", SP}

InitQuantity ==
    /\ call \in {Pending("normalizeQuantity", <<q>>) :
                    q \in StringsUpTo(QuantityAlphabet, MaxQuantityLen)}
    /\ NoData
    /\ PageStart

CallNormalizeQuantity ==
    /\ call.fn = "normalizeQuantity"
    /\ ~call.done
    /\ call' = [call EXCEPT !.done = TRUE, !.ret = normalizeQuantity(call.args[1])]
    /\ UNCHANGED pageVars

NextQuantity == CallNormalizeQuantity

SpecQuantity == InitQuantity /\ [][NextQuantity]_vars

Normalized == call.fn = "normalizeQuantity" /\ call.done

\* The quantity string as the claim reads it: trimmed, in lower case.
QuantityString == toLowerCase(trim(call.args[1]))

\* <number>k: an unsigned decimal number, with or without a fraction, then k.
NumberKForm(s) ==
    /\ Len(s) >= 2
    /\ s[Len(s)] = "k"
    /\ \/ IsDigits(SubSeq(s, 1, Len(s) - 1))
       \/ \E p \in 2..(Len(s) - 2) :
             /\ s[p] = "."
             /\ IsDigits(SubSeq(s, 1, p - 1))
             /\ IsDigits(SubSeq(s, p + 1, Len(s) - 1))

\* number * 1000 rounded, for s of the form <number>k: the integer r with
\* 2 * |1000 * number - r| <= 1, the upper one at a half.
IsRoundOfNumberK(s, r) ==
    \E p \in 2..Len(s) :
        /\ p = Len(s) \/ s[p] = "."
        /\ IsDigits(SubSeq(s, 1, p - 1))
        /\ LET frac == IF p = Len(s) THEN << >> ELSE SubSeq(s, p + 1, Len(s) - 1)
               scale == Pow10(Len(frac))
               x == (DecimalValue(SubSeq(s, 1, p - 1)) * scale + DecimalValue(frac)) * 1000
           IN  /\ 2 * r * scale - 2 * x <= scale
               /\ 2 * x - 2 * r * scale < scale

\* A bare integer: digits only, with an optional sign.
BareIntegerForm(s) ==
    \/ IsDigits(s)
    \/ Len(s) >= 2 /\ s[1] \in {"+", "-"} /\ IsDigits(Tail(s))

BareIntegerValue(s) ==
    IF s[1] = "-" THEN 0 - DecimalValue(Tail(s))
    ELSE IF s[1] = "+" THEN DecimalValue(Tail(s))
    ELSE DecimalValue(s)

\* s starts with an integer (an optional sign and at least one digit) of value v
\* that ends where the digits end.
StartsWithInteger(s, v) ==
    \E n \in 1..Len(s) :
        /\ BareIntegerForm(SubSeq(s, 1, n))
        /\ n = Len(s) \/ s[n + 1] \notin Digits
        /\ v = BareIntegerValue(SubSeq(s, 1, n))

\* C8 as stated: round(number * 1000) for <number>k, the integer for a bare
\* integer, and 0 for every other string.
C8_ZeroForAnythingElse ==
    Normalized =>
        IF NumberKForm(QuantityString) THEN IsRoundOfNumberK(QuantityString, call.ret)
        ELSE IF BareIntegerForm(QuantityString)
             THEN call.ret = BareIntegerValue(QuantityString)
             ELSE call.ret = 0

\* C8 amended: round(number * 1000) for <number>k with an unsigned number, the
\* integer for a bare integer; for any other string, the integer the string starts
\* with (an optional sign and digits, whatever follows them), and 0 only when the
\* string does not start with an integer.
C8_LeadingIntegerOrZero ==
    Normalized =>
        IF NumberKForm(QuantityString) THEN IsRoundOfNumberK(QuantityString, call.ret)
        ELSE IF BareIntegerForm(QuantityString)
             THEN call.ret = BareIntegerValue(QuantityString)
             ELSE IF \E n \in 1..Len(QuantityString) :
                        BareIntegerForm(SubSeq(QuantityString, 1, n))
                  THEN StartsWithInteger(QuantityString, call.ret)
                  ELSE call.ret = 0

\* A normalized string that is neither <number>k nor a bare integer and is not
\* normalized to 0, and one that is <number>k with a fraction.
C8_Witness ==
    /\ Normalized
    /\ ~NumberKForm(QuantityString)
    /\ ~BareIntegerForm(QuantityString)
    /\ call.ret # 0
    /\ "k" \in Range(QuantityString)

-----------------------------------------------------------------------------
(* splitLocations, slugify, titleCase, normalizeFilterValue, tokenizeName *)

LowerAlnum == {LowerLetters[i] : i \in 1..26} \cup Digits

\* \w
IsWordChar(c) == c \in LowerAlnum \/ c \in DOMAIN LowerOf \/ c = "_"

\* The separators of the split calls: /[,;]+/, /\s+/, "_" and /[^a-z0-9]+/.
IsSeparator(class, c) ==
    CASE class = "list" -> c \in {",", ";"}
      [] class = "space" -> IsSpace(c)
      [] class = "underscore" -> c = "_"
      [] class = "nonalnum" -> c \notin LowerAlnum

\* String.prototype.split on a one-character separator: the pieces between
\* separators, empty pieces included.
RECURSIVE splitEach(_, _)
splitEach(s, class) ==
    LET seps == {i \in 1..Len(s) : IsSeparator(class, s[i])}
    IN  IF seps = {} THEN <<s>>
        ELSE LET i == CHOOSE i \in seps : \A j \in seps : i <= j
             IN  <<SubSeq(s, 1, i - 1)>>
                 \o The({splitEach(rest, class) : rest \in {SubSeq(s, i + 1, Len(s))}})

\* String.prototype.split on a regular expression matching runs of separators:
\* no empty piece inside, one at either end when the string starts or ends with a run.
splitRuns(s, class) ==
    LET pieces == splitEach(s, class)
        keep == {k \in 1..Len(pieces) : k = 1 \/ k = Len(pieces) \/ pieces[k] # << >>}
        Nth(n) == CHOOSE k \in keep : Cardinality({j \in keep : j < k}) = n - 1
    IN  [n \in 1..Cardinality(keep) |-> pieces[Nth(n)]]

\* .filter(Boolean) on an array of strings
filterBoolean(list) == SelectSeq(list, LAMBDA x : x # << >>)

\* a || b on strings
Or(a, b) == IF a # << >> THEN a ELSE b

splitLocations(loc) ==
    LET s == trim(loc)
        semis == [i \in 1..Len(s) |-> IF s[i] = "|" THEN ";" ELSE s[i]]
        parts == splitRuns(semis, "list")
    IN  IF s = << >> THEN << << >> >>
        ELSE filterBoolean([k \in 1..Len(parts) |-> trim(parts[k])])

RECURSIVE stripUnderscoresStart(_)
stripUnderscoresStart(s) ==
    IF s # << >> /\ Head(s) = "_" THEN stripUnderscoresStart(Tail(s)) ELSE s

RECURSIVE stripUnderscoresEnd(_)
stripUnderscoresEnd(s) ==
    IF s # << >> /\ s[Len(s)] = "_"
    THEN stripUnderscoresEnd(SubSeq(s, 1, Len(s) - 1))
    ELSE s

slugify(text) ==
    LET replaced == join(splitRuns(toLowerCase(text), "nonalnum"), <<"_">>)
    IN  stripUnderscoresEnd(stripUnderscoresStart(replaced))

\* text.replace(/\b\w/g, c => c.toUpperCase())
titleCase(text) ==
    [i \in 1..Len(text) |->
        IF IsWordChar(text[i]) /\ (i = 1 \/ ~IsWordChar(text[i - 1]))
        THEN UpperChar(text[i])
        ELSE text[i]]

\* Lower case without the trim.
normalizeFilterValueNoTrim(value) == toLowerCase(value)

normalizeFilterValue(value) == toLowerCase(trim(value))

tokenizeName(name) == filterBoolean(splitRuns(toLowerCase(name), "space"))

-----------------------------------------------------------------------------
(* toObjects *)

\* obj[header[c]] = row[c] !== undefined ? row[c] : "" for the column called name:
\* the last column of that name wins. A column the header lacks reads as "" (it is
\* undefined in the code, and every reader of a field turns undefined into "").
cell(header, row, name) ==
    LET cs == {c \in 1..Len(header) : header[c] = name}
    IN  IF cs = {} THEN EmptyStr
        ELSE LET c == CHOOSE c \in cs : \A d \in cs : d <= c
             IN  IF c <= Len(row) THEN row[c] ELSE EmptyStr

\* The object of one data row, with the columns the program reads.
rowObject(header, row) ==
    [ Name |-> cell(header, row, <<"N", "a", "m", "e">>),
      Quantity |-> normalizeQuantity(cell(header, row, <<"Q", "u", "a", "n", "t", "i", "t", "y">>)),
      _normName |-> toLowerCase(trim(cell(header, row, <<"N", "a", "m", "e">>))),
      LocationType |-> cell(header, row, <<"L", "o", "c", "a", "t", "i", "o", "n", "T", "y", "p", "e">>),
      Category |-> cell(header, row, <<"C", "a", "t", "e", "g", "o", "r", "y">>),
      Vendor |-> cell(header, row, <<"V", "e", "n", "d", "o", "r">>),
      Source |-> cell(header, row, <<"S", "o", "u", "r", "c", "e">>),
      Station |-> cell(header, row, <<"S", "t", "a", "t", "i", "o", "n">>),
      Tier |-> cell(header, row, <<"T", "i", "e", "r">>),
      ArcRarity |-> cell(header, row, <<"A", "r", "c", "R", "a", "r", "i", "t", "y">>),
      MetaRarity |-> cell(header, row, <<"M", "e", "t", "a", "R", "a", "r", "i", "t", "y">>),
      ArcType |-> cell(header, row, <<"A", "r", "c", "T", "y", "p", "e">>),
      MetaType |-> cell(header, row, <<"M", "e", "t", "a", "T", "y", "p", "e">>),
      ArcFoundIn |-> cell(header, row, <<"A", "r", "c", "F", "o", "u", "n", "d", "I", "n">>),
      MetaWorkbench |-> cell(header, row, <<"M", "e", "t", "a", "W", "o", "r", "k", "b", "e", "n", "c", "h">>),
      ArcValue |-> cell(header, row, <<"A", "r", "c", "V", "a", "l", "u", "e">>),
      ArcStackSize |-> cell(header, row, <<"A", "r", "c", "S", "t", "a", "c", "k", "S", "i", "z", "e">>),
      ArcWeightKg |-> cell(header, row, <<"A", "r", "c", "W", "e", "i", "g", "h", "t", "K", "g">>),
      ItemID |-> cell(header, row, <<"I", "t", "e", "m", "I", "D">>),
      ArcID |-> cell(header, row, <<"A", "r", "c", "I", "D">>),
      MetaID |-> cell(header, row, <<"M", "e", "t", "a", "I", "D">>),
      IconURL |-> cell(header, row, <<"I", "c", "o", "n", "U", "R", "L">>),
      ArcDescription |-> cell(header, row, <<"A", "r", "c", "D", "e", "s", "c", "r", "i", "p", "t", "i", "o", "n">>),
      MetaDescription |-> cell(header, row, <<"M", "e", "t", "a", "D", "e", "s", "c", "r", "i", "p", "t", "i", "o", "n">>) ]

\* One record for the first location only.
fanOutFirstOnly(obj) ==
    LET locs == splitLocations(obj.LocationType)
    IN  << [obj EXCEPT !.LocationType = IF locs = << >> THEN EmptyStr ELSE locs[1]] >>

\* The records one data row contributes: one, or one per location.
fanOut(obj) ==
    LET locs == splitLocations(obj.LocationType)
    IN  IF Len(locs) <= 1
        THEN << [obj EXCEPT !.LocationType = IF locs = << >> THEN EmptyStr ELSE locs[1]] >>
        ELSE [k \in 1..Len(locs) |-> [obj EXCEPT !.LocationType = locs[k]]]

RECURSIVE toObjectsFrom(_, _)
toObjectsFrom(rows, r) ==
    IF r > Len(rows) THEN << >>
    ELSE IF Len(rows[r]) = 1 /\ trim(rows[r][1]) = << >>
         THEN toObjectsFrom(rows, r + 1)
         ELSE fanOut(rowObject(rows[1], rows[r])) \o toObjectsFrom(rows, r + 1)

toObjects(rows) == toObjectsFrom(rows, 2)

-----------------------------------------------------------------------------
(* deriveQuestName *)

deriveQuestName(itemId, slugName, arcId, metaId) ==
    LET tokens == filterBoolean(splitEach(itemId, "underscore"))
        nameTokens == IF slugName # << >>
                      THEN filterBoolean(splitEach(slugName, "underscore"))
                      ELSE << >>
        arcLen == Len(splitEach(arcId, "underscore"))
        metaLen == Len(splitEach(metaId, "underscore"))
        chosen == IF arcId # << >> /\ startsWith(itemId, arcId) /\ Len(tokens) > arcLen
                  THEN arcLen
                  ELSE IF metaId # << >> /\ startsWith(itemId, metaId) /\ Len(tokens) > metaLen
                       THEN metaLen
                       ELSE IF Len(nameTokens) > 0 /\ Len(tokens) > Len(nameTokens)
                            THEN Len(nameTokens)
                            ELSE 0
        dropCount == IF chosen <= 0 \/ chosen >= Len(tokens)
                     THEN IF Len(tokens) - 2 > 1 THEN Len(tokens) - 2 ELSE 1
                     ELSE chosen
        remainder == SubSeq(tokens, dropCount + 1, Len(tokens))
    IN  IF itemId = << >> THEN EmptyStr
        ELSE IF Len(tokens) <= 1 THEN EmptyStr
        ELSE IF Len(remainder) = 0 THEN EmptyStr
        ELSE titleCase(join(remainder, <<SP>>))

-----------------------------------------------------------------------------
(* aggregateItems *)

\* String(n) of an integer
RECURSIVE natToString(_)
natToString(n) ==
    LET d == CHOOSE c \in Digits : DigitValue[c] = n % 10
    IN  IF n < 10 THEN <<d>> ELSE Append(natToString(n \div 10), d)

numberToString(n) == IF n < 0 THEN <<"-">> \o natToString(0 - n) ELSE natToString(n)

pushUnique(list, value) ==
    IF value = << >> THEN list
    ELSE IF ~includes(list, value) THEN Append(list, value) ELSE list

\* addFilterKey on the array of values (line 141): the keys it adds.
filterKeysOf(type, values) ==
    {type \o <<":">> \o normalizeFilterValue(values[k]) :
        k \in {j \in 1..Len(values) : normalizeFilterValue(values[j]) # << >>}}

\* addFilterKey(entry, type, value) with a string value
addFilterKey(entry, type, value) ==
    IF value = << >> THEN entry
    ELSE [entry EXCEPT !.FilterKeys = @ \cup filterKeysOf(type, <<value>>)]

\* addFilterKey(entry, type, value) with an array value
addFilterKeyArray(entry, type, value) ==
    [entry EXCEPT !.FilterKeys = @ \cup filterKeysOf(type, value)]

\* An entry that keeps the lists and keys the row already carries.
newEntryKeepsLists(row) ==
    row @@ [ CategoryList |-> << >>, LocationList |-> << >>, VendorList |-> << >>,
             SourceList |-> << >>, UsageEntries |-> << >>, _usageSet |-> {},
             FilterKeys |-> {}, _tokenSet |-> << >> ]

\* The entry created for the first row of a name.
newEntry(row) ==
    [ CategoryList |-> << >>, LocationList |-> << >>, VendorList |-> << >>,
      SourceList |-> << >>, UsageEntries |-> << >>, _usageSet |-> {},
      FilterKeys |-> {}, _tokenSet |-> << >> ] @@ row

\* pushUnique and addFilterKey of one row (lines 164-179).
mergeLists(entry, row) ==
    LET e0 == [entry EXCEPT !.CategoryList = pushUnique(@, row.Category),
                            !.LocationList = pushUnique(@, row.LocationType),
                            !.VendorList = pushUnique(@, row.Vendor),
                            !.SourceList = pushUnique(@, row.Source)]
        e1 == addFilterKey(e0, <<"c", "a", "t", "e", "g", "o", "r", "y">>, row.Category)
        e2 == addFilterKey(e1, <<"l", "o", "c", "a", "t", "i", "o", "n">>, row.LocationType)
        e3 == addFilterKey(e2, <<"v", "e", "n", "d", "o", "r">>, row.Vendor)
        e4 == addFilterKey(e3, <<"s", "o", "u", "r", "c", "e">>, row.Source)
        e5 == addFilterKey(e4, <<"s", "t", "a", "t", "i", "o", "n">>, row.Station \o <<"|">> \o row.Tier)
        e6 == addFilterKey(e5, <<"r", "a", "r", "i", "t", "y">>, Or(row.ArcRarity, row.MetaRarity))
        e7 == addFilterKey(e6, <<"t", "y", "p", "e">>, Or(row.ArcType, Or(row.MetaType, row.Category)))
        e8 == addFilterKeyArray(e7, <<"f", "o", "u", "n", "d">>, splitLocations(row.ArcFoundIn))
        e9 == addFilterKey(e8, <<"w", "o", "r", "k", "b", "e", "n", "c", "h">>, row.MetaWorkbench)
        e10 == addFilterKey(e9, <<"v", "a", "l", "u", "e">>, row.ArcValue)
        e11 == addFilterKey(e10, <<"s", "t", "a", "c", "k">>, row.ArcStackSize)
    IN  addFilterKey(e11, <<"w", "e", "i", "g", "h", "t">>, row.ArcWeightKg)

\* The metadata of items.json and the fallback icon (lines 181-208).
mergeMeta(entry, row, jsonMap) ==
    LET has == entry._normName \in DOMAIN jsonMap
        meta == jsonMap[entry._normName]
        e1 == IF has /\ entry.IconURL = << >> /\ meta.icon # << >>
              THEN [entry EXCEPT !.IconURL = meta.icon] ELSE entry
        e2 == IF has /\ e1.ArcWeightKg = << >> /\ meta.weight # << >>
              THEN [e1 EXCEPT !.ArcWeightKg = meta.weight] ELSE e1
        e3 == IF has /\ e2.ArcStackSize = << >> /\ meta.stackSize # << >>
              THEN [e2 EXCEPT !.ArcStackSize = meta.stackSize] ELSE e2
        id == toLowerCase(Or(row.MetaID, Or(row.ArcID, row.ItemID)))
        fallbackId == [i \in 1..Len(id) |-> IF id[i] = "_" THEN "-" ELSE id[i]]
    IN  IF e3.IconURL = << >> /\ fallbackId # << >>
        THEN [e3 EXCEPT !.IconURL =
                 <<"h", "t", "t", "p", "s", ":", "/", "/", "c", "d", "n", ".", "m", "e", "t", "a", "f", "o", "r", "g", "e", ".", "a", "p", "p", "/", "a", "r", "c", "-", "r", "a", "i", "d", "e", "r", "s", "/", "i", "c", "o", "n", "s", "/">> \o fallbackId \o <<".", "w", "e", "b", "p">>]
        ELSE e3

\* The quest name of a row (lines 210-214).
questNameOf(row) ==
    IF row.Station = <<"Q", "u", "e", "s", "t">> \/ row.Source = <<"Q", "u", "e", "s", "t">>
    THEN deriveQuestName(row.ItemID, slugify(row.Name), row.ArcID, row.MetaID)
    ELSE EmptyStr

\* [row.Station, row.Tier, row.Quantity, row.Source, questName].join("|")
usageKey(row, questName) ==
    join(<<row.Station, row.Tier, numberToString(row.Quantity), row.Source, questName>>,
         <<"|">>)

\* The usage entry of one row, unless its key is in _usageSet (lines 215-231).
addUsage(entry, row, questName, key) ==
    IF key \notin entry._usageSet
    THEN [entry EXCEPT
             !._usageSet = @ \cup {key},
             !.UsageEntries = Append(@, [station |-> row.Station, tier |-> row.Tier,
                                         quantity |-> row.Quantity,
                                         source |-> row.Source,
                                         questName |-> questName])]
    ELSE entry

mergeUsage(entry, row) ==
    The({addUsage(entry, row, questName, usageKey(row, questName)) :
            questName \in {questNameOf(row)}})

RECURSIVE addAll(_, _)
addAll(list, values) ==
    IF values = << >> THEN list
    ELSE addAll(IF includes(list, Head(values)) THEN list ELSE Append(list, Head(values)),
                Tail(values))

\* The name tokens and the first non-empty descriptions and rarities (lines 233-240).
mergeScalars(entry, row) ==
    [entry EXCEPT
        !._tokenSet = addAll(@, tokenizeName(row.Name)),
        !.ArcDescription = IF @ = << >> /\ row.ArcDescription # << >>
                           THEN row.ArcDescription ELSE @,
        !.MetaDescription = IF @ = << >> /\ row.MetaDescription # << >>
                            THEN row.MetaDescription ELSE @,
        !.ArcRarity = IF @ = << >> /\ row.ArcRarity # << >> THEN row.ArcRarity ELSE @,
        !.MetaRarity = IF @ = << >> /\ row.MetaRarity # << >> THEN row.MetaRarity ELSE @]

\* What one row merges into its entry (lines 164-240).
mergeRow(entry, row, jsonMap) ==
    mergeScalars(mergeUsage(mergeMeta(mergeLists(entry, row), row, jsonMap), row), row)

\* One iteration of the loop over rows; map is the Map's entries in insertion order.
aggregateRow(map, row, jsonMap) ==
    LET at == {k \in 1..Len(map) : map[k]._normName = row._normName}
        entry == IF at = {} THEN newEntry(row) ELSE map[The(at)]
    IN  The({IF at = {} THEN Append(map, merged) ELSE [map EXCEPT ![The(at)] = merged] :
                merged \in {mergeRow(entry, row, jsonMap)}})

RECURSIVE aggregateLoop(_, _, _)
aggregateLoop(map, rows, jsonMap) ==
    IF rows = << >> THEN map
    ELSE The({aggregateLoop(next, rest, jsonMap) :
                 next \in {aggregateRow(map, Head(rows), jsonMap)}, rest \in {Tail(rows)}})

\* Array.from(map.values()).map(({ _usageSet, _tokenSet, ...rest }) => ...)
groupedRecord(entry) ==
    [f \in (DOMAIN entry \ {"_usageSet", "_tokenSet"}) \cup {"_tokens"} |->
        IF f = "_tokens" THEN entry._tokenSet ELSE entry[f]]

\* aggregateItems(rows), with the JSON_DATA_MAP it reads as a parameter.
aggregateItems(rows, jsonMap) ==
    The({[k \in 1..Len(map) |-> groupedRecord(map[k])] :
            map \in {aggregateLoop(<< >>, rows, jsonMap)}})

-----------------------------------------------------------------------------
(* Specification of the normalizer and the aggregator: a decoded table is   *)
(* chosen, toObjects normalizes it and aggregateItems groups the records.   *)

MaxRows == 2

TableHeader ==
    <<<<"N", "a", "m", "e">>, <<"S", "t", "a", "t", "i", "o", "n">>, <<"T", "i", "e", "r">>, <<"Q", "u", "a", "n", "t", "i", "t", "y">>, <<"S", "o", "u", "r", "c", "e">>, <<"L", "o", "c", "a", "t", "i", "o", "n", "T", "y", "p", "e">>,
      <<"C", "a", "t", "e", "g", "o", "r", "y">>, <<"I", "t", "e", "m", "I", "D">>>>

\* The data rows of the tables: two spellings of one name and another name; stations
\* and tiers with and without the "|" of the usage key, and a quest; one location,
\* none or two.
TableRows ==
    {<<name, st[1], st[2], <<"2">>, <<"I", "t", "e", "m">>, loc, <<"O", "r", "e">>, <<"c", "d", "_", "i", "r", "o", "n", "_", "m", "i", "n", "e">>>> :
        name \in {<<"A", " ", "b">>, <<"a", " ", "b">>, <<"C", "d">>},
        st \in {<<<<"|">>, <<>>>>, <<<<>>, <<"|">>>>, <<<<"Q", "u", "e", "s", "t">>, <<"1">>>>},
        loc \in {<<>>, <<"B", "u", "n", "k", "e", "r", "|", "V", "a", "u", "l", "t">>}}

\* Data rows for the filter index: two names; a category that is absent, blank,
\* padded or plain; one location, or a list of three with a repetition and an
\* empty piece.
FilterRows ==
    {<<name, EmptyStr, EmptyStr, <<"2">>, <<"I", "t", "e", "m">>, loc, cat, EmptyStr>> :
        name \in {<<"A", " ", "b">>, <<"C", "d">>},
        cat \in {EmptyStr, <<" ">>, <<" ", "O", "r", "e", " ">>, <<"M", "e", "t", "a", "l">>},
        loc \in {<<"V", "a", "u", "l", "t">>, <<" ", "V", "a", "u", "l", "t", " ", ";", "b", "u", "n", "k", "e", "r", ",", ",", "V", "a", "u", "l", "t">>}}

Tables ==
    {<<TableHeader>> \o rows :
        rows \in UNION {[1..n -> TableRows] \cup [1..n -> FilterRows] : n \in 0..MaxRows}}

\* The metadata of items.json by name: none, or an entry for one of the names.
JsonMaps ==
    {<< >>,
     [n \in {<<"a", " ", "b">>} |-> [icon |-> <<"i", ".", "p", "n", "g">>, weight |-> <<"3">>, stackSize |-> <<>>]]}

InitAggregate ==
    /\ call \in {Pending("toObjects", <<t>>) : t \in Tables}
    /\ JSON_DATA_MAP \in JsonMaps
    /\ csvText = EmptyStr
    /\ jsonData = << >>
    /\ ITEMS = << >>
    /\ GROUPED_ITEMS = << >>
    /\ PageStart

CallToObjects ==
    /\ call.fn = "toObjects"
    /\ ~call.done
    /\ call' = [call EXCEPT !.done = TRUE, !.ret = toObjects(call.args[1])]
    /\ UNCHANGED pageVars

\* GROUPED_ITEMS = aggregateItems(ITEMS) on the records toObjects returned.
CallAggregateItems ==
    /\ call.fn = "toObjects"
    /\ call.done
    /\ call' = [fn |-> "aggregateItems", args |-> <<call.ret>>, done |-> TRUE,
                ret |-> aggregateItems(call.ret, JSON_DATA_MAP)]
    /\ UNCHANGED pageVars

\* aggregateItems on the grouped records it returned; the rows are kept as a
\* second argument for reference.
CallAggregateItemsAgain ==
    /\ call.fn = "aggregateItems"
    /\ call.done
    /\ call' = [fn |-> "aggregateItems again", args |-> <<call.ret, call.args[1]>>,
                done |-> TRUE, ret |-> aggregateItems(call.ret, JSON_DATA_MAP)]
    /\ UNCHANGED pageVars

NextAggregate == CallToObjects \/ CallAggregateItems \/ CallAggregateItemsAgain

SpecAggregate == InitAggregate /\ [][NextAggregate]_vars

Aggregated == call.fn = "aggregateItems" /\ call.done

\* The rows that contribute to a grouped record.
Contributing(rows, g) == {k \in 1..Len(rows) : rows[k]._normName = g._normName}

\* The usage tuple (station, tier, quantity, source, questName) of a row.
UsageTuple(row) == <<row.Station, row.Tier, row.Quantity, row.Source, questNameOf(row)>>

EntryTuple(e) == <<e.station, e.tier, e.quantity, e.source, e.questName>>

\* C7: after aggregateItems, the UsageEntries of each grouped record hold exactly
\* one entry for every distinct tuple (station, tier, quantity, source, questName)
\* among its contributing rows: no two entries are field-wise equal and no tuple
\* is missing.
C7_UsageEntriesByTuple ==
    Aggregated =>
        \A g \in Range(call.ret) :
            LET tuples == {UsageTuple(call.args[1][k]) : k \in Contributing(call.args[1], g)}
                entries == {EntryTuple(g.UsageEntries[k]) : k \in 1..Len(g.UsageEntries)}
            IN  /\ entries = tuples
                /\ Cardinality(entries) = Len(g.UsageEntries)

-----------------------------------------------------------------------------
(* similarity *)

Max(a, b) == IF a >= b THEN a ELSE b

\* A score is the fraction num / den of two integers, den > 0. The code computes it
\* in doubles; on the token and character counts of the model the double
\* 0.6 * tokenScore + 0.4 * charScore is on the same side of 0.6 as the fraction.
Fraction(num, den) == [num |-> num, den |-> den]

\* x.score >= threshold, for a threshold of tenths
AtLeastTenths(score, tenths) == 10 * score.num >= tenths * score.den

\* a.score > b.score
Greater(a, b) == a.num * b.den > b.num * a.den

\* The weights of the two ratios exchanged: 0.4 * tokenScore + 0.6 * charScore.
weightedScoreSwapped(shared, tokens, inter, chars) ==
    Fraction(4 * shared * chars + 6 * inter * tokens, 10 * tokens * chars)

\* 0.6 * tokenScore + 0.4 * charScore from the counts of lines 283-295
weightedScore(shared, tokens, inter, chars) ==
    Fraction(6 * shared * chars + 4 * inter * tokens, 10 * tokens * chars)

\* The score of two trimmed, lower-case strings that differ.
overlapScore(a, b, at, bt) ==
    weightedScore(Cardinality({i \in 1..Len(at) : includes(bt, at[i])}),
                  Max(Len(at), Len(bt)),
                  Cardinality(Range(a) \cap Range(b)),
                  Max(Cardinality(Range(a)), Cardinality(Range(b))))

similarityOf(a, b) ==
    IF a = b THEN Fraction(1, 1)
    ELSE overlapScore(a, b, splitRuns(a, "space"), splitRuns(b, "space"))

similarity(a, b) == similarityOf(trim(toLowerCase(a)), trim(toLowerCase(b)))

-----------------------------------------------------------------------------
(* dedupeAndSort, matchesQuery, applyActiveFilter, search *)

itemKey(r) == r._normName

\* The items whose key no earlier item of the list has, in the order of the list.
dedupe(list) ==
    LET firsts == {k \in 1..Len(list) :
                      \A j \in 1..(k - 1) : itemKey(list[j]) # itemKey(list[k])}
    IN  [n \in 1..Cardinality(firsts) |->
            list[CHOOSE k \in firsts : Cardinality({j \in firsts : j < k}) = n - 1]]

\* The collation of String.prototype.localeCompare on the characters of the model:
\* white space, punctuation, digits, then letters; a lower-case letter and its
\* upper-case letter differ only when everything else is equal.
CollationOrder ==
    <<SP, "_", "-", ",", ";", ":", ".", "|",
      "0", "1", "2", "3", "4", "5", "6", "7", "8", "9">> \o LowerLetters

Rank(c) == The({k \in 1..Len(CollationOrder) : CollationOrder[k] = LowerChar(c)})

\* The first index at which two sequences of numbers differ is where ka < kb, or
\* ka is a proper prefix of kb.
LexLess(ka, kb) ==
    \E i \in 1..(Len(kb)) :
        /\ \A j \in 1..(i - 1) : j <= Len(ka) /\ ka[j] = kb[j]
        /\ i > Len(ka) \/ (i <= Len(ka) /\ ka[i] < kb[i])
        /\ i - 1 <= Len(ka)

PrimaryKey(s) == [i \in 1..Len(s) |-> Rank(s[i])]

CaseKey(s) == [i \in 1..Len(s) |-> IF s[i] \in DOMAIN LowerOf THEN 1 ELSE 0]

\* a.localeCompare(b): -1, 0 or 1
localeCompare(a, b) ==
    IF LexLess(PrimaryKey(a), PrimaryKey(b)) THEN -1
    ELSE IF LexLess(PrimaryKey(b), PrimaryKey(a)) THEN 1
    ELSE IF LexLess(CaseKey(a), CaseKey(b)) THEN -1
    ELSE IF LexLess(CaseKey(b), CaseKey(a)) THEN 1
    ELSE 0

\* The comparator of out.sort in dedupeAndSort
compareItems(a, b) ==
    IF localeCompare(a._normName, b._normName) # 0
    THEN localeCompare(a._normName, b._normName)
    ELSE IF localeCompare(a.Station, b.Station) # 0
         THEN localeCompare(a.Station, b.Station)
         ELSE localeCompare(a.Tier, b.Tier)

\* Array.prototype.sort, which is stable: the element at k goes after the elements
\* that compare before it and the earlier elements that compare equal to it.
\* before holds the pairs <<i, j>> of indices such that the element at i has to
\* come before the element at j.
sortedBy(list, before) ==
    LET place == [k \in 1..Len(list) |->
                    1 + Cardinality({j \in 1..Len(list) :
                                        \/ <<j, k>> \in before
                                        \/ j < k /\ <<k, j>> \notin before})]
    IN  [n \in 1..Len(list) |-> list[CHOOSE k \in 1..Len(list) : place[k] = n]]

sortItems(out) ==
    sortedBy(out, {p \in (1..Len(out)) \X (1..Len(out)) :
                      compareItems(out[p[1]], out[p[2]]) < 0})

dedupeAndSort(list) == The({sortItems(out) : out \in {dedupe(list)}})

matchesQuery(item, query) ==
    IF query = << >> THEN FALSE
    ELSE \/ startsWith(item._normName, query)
         \/ \E k \in 1..Len(item._tokens) : startsWith(item._tokens[k], query)

\* list.filter(item => item.FilterKeys?.has(key))
filterByKey(list, key) == SelectSeq(list, LAMBDA item : key \in item.FilterKeys)

\* applyActiveFilter(list), with the activeFilterKey it reads as a parameter
applyActiveFilter(list, activeKey) ==
    IF activeKey = << >> THEN list ELSE filterByKey(list, activeKey)

\* Array.prototype.slice(0, end)
slice0(list, end) ==
    IF end >= 0
    THEN SubSeq(list, 1, IF end < Len(list) THEN end ELSE Len(list))
    ELSE SubSeq(list, 1, Len(list) + end)

\* GROUPED_ITEMS.map(it => ({ it, score })).filter(x => x.score >= 0.6)
scoredItems(items, query) ==
    SelectSeq([k \in 1..Len(items) |->
                  [it |-> items[k], score |-> similarity(query, items[k]._normName)]],
              LAMBDA x : AtLeastTenths(x.score, 6))

\* .sort((a, b) => b.score - a.score)
sortScored(scored) ==
    sortedBy(scored, {p \in (1..Len(scored)) \X (1..Len(scored)) :
                         Greater(scored[p[1]].score, scored[p[2]].score)})

\* The loop over scored (lines 640-647): the results when it ends or breaks.
RECURSIVE fuzzyLoop(_, _, _, _)
fuzzyLoop(scored, results, seen, maxResults) ==
    IF scored = << >> THEN results
    ELSE The({IF Len(next) >= maxResults THEN next
              ELSE fuzzyLoop(Tail(scored), next, seen \cup {itemKey(Head(scored).it)},
                             maxResults) :
                 next \in {IF itemKey(Head(scored).it) \notin seen
                           THEN Append(results, Head(scored).it)
                           ELSE results}})

fuzzyMatches(items, query, maxResults) ==
    fuzzyLoop(sortScored(scoredItems(items, query)), << >>, {}, maxResults)

\* The phases in the other order: the prefix phase only when no record scores
\* at least 0.6.
searchQueryFuzzyFirst(items, query, maxResults) ==
    IF query = << >> THEN << >>
    ELSE IF scoredItems(items, query) # << >>
         THEN fuzzyMatches(items, query, maxResults)
         ELSE slice0(dedupeAndSort(SelectSeq(items, LAMBDA it : matchesQuery(it, query))),
                     maxResults)

\* An empty query answered with every record, up to the cap.
searchQueryEmptyMatchesAll(items, query, maxResults) ==
    IF query = << >> THEN slice0(items, maxResults)
    ELSE IF Len(dedupeAndSort(SelectSeq(items, LAMBDA it : matchesQuery(it, query)))) > 0
         THEN slice0(dedupeAndSort(SelectSeq(items, LAMBDA it : matchesQuery(it, query))),
                     maxResults)
         ELSE fuzzyMatches(items, query, maxResults)

\* The two phases of search on the trimmed, lower-case query.
searchQuery(items, query, maxResults) ==
    IF query = << >> THEN << >>
    ELSE The({IF Len(prefixMatches) > 0
              THEN slice0(prefixMatches, maxResults)
              ELSE fuzzyMatches(items, query, maxResults) :
                 prefixMatches \in {dedupeAndSort(
                     SelectSeq(items, LAMBDA it : matchesQuery(it, query)))}})

\* function search(q, maxResults = 50)
DefaultMaxResults == 50

search(q, maxResults) == searchQuery(GROUPED_ITEMS, toLowerCase(trim(q)), maxResults)

-----------------------------------------------------------------------------
(* Specification of search: the page has loaded a table of names, search is
   called with a query and a cap. *)

MaxItems == 2

MaxQueryLen == 3

MaxCap == 2

SearchNames == {<<"a", " ", "b">>, <<"b", " ", "a">>, <<"a", " ", "b", "c">>, <<"C", "i", "r", "c", "u", "i", "t", " ", "B", "o", "a", "r", "d">>}

\* items.csv with a Name column and up to MaxItems rows
SearchCsvTexts ==
    {join(<<<<"N", "a", "m", "e">>>> \o names, <<LF>>) :
        names \in UNION {[1..n -> SearchNames] : n \in 0..MaxItems}}

Queries == StringsUpTo({"a", "b", SP}, MaxQueryLen) \cup {<<"c", "r", "c", "u", "i", "t">>, <<" ", "A", " ", "B">>, <<"c", "i", "r", "c", "u", "i", "t", " ", "b", "o", "a", "r", "d">>}

Caps == 0..MaxCap \cup {DefaultMaxResults}

\* The page after main has loaded csvText and registered its handlers.
PageLoaded ==
    /\ pc = "ready"
    /\ csvFetch = "ok"
    /\ jsonFetch = "ok"
    /\ jsonData = << >>
    /\ JSON_DATA_MAP = << >>
    /\ ITEMS = toObjects(parseCSV(csvText))
    /\ GROUPED_ITEMS = aggregateItems(ITEMS, JSON_DATA_MAP)
    /\ dataLoaded = TRUE
    /\ loadFailed = FALSE
    /\ activeFilterKey = EmptyStr
    /\ lastQuery = EmptyStr
    /\ triggerSearch = "doSearch"
    /\ qEl = [value |-> EmptyStr, disabled |-> FALSE, listening |-> TRUE]
    /\ resultsEl = [kind |-> "empty", text |-> EmptyStr, list |-> << >>]
    /\ hist = << >>

InitSearch ==
    /\ csvText \in SearchCsvTexts
    /\ PageLoaded
    /\ call \in {Pending("search", <<q, cap>>) : q \in Queries, cap \in Caps}

CallSearch ==
    /\ call.fn = "search"
    /\ ~call.done
    /\ call' = [call EXCEPT !.done = TRUE, !.ret = search(call.args[1], call.args[2])]
    /\ UNCHANGED pageVars

NextSearch == CallSearch

SpecSearch == InitSearch /\ [][NextSearch]_vars

Searched == call.fn = "search" /\ call.done

\* The query as the phases see it, and the cap
SearchedQuery == toLowerCase(trim(call.args[1]))

SearchedCap == call.args[2]

\* A record's normalizedName starts with the query, or one of the
\* whitespace-delimited tokens of its name does.
IsPrefixRecord(r, query) ==
    \/ startsWith(r._normName, query)
    \/ \E k \in 1..Len(r._tokens) : startsWith(r._tokens[k], query)

PrefixMatchExists ==
    /\ SearchedQuery # << >>
    /\ \E k \in 1..Len(GROUPED_ITEMS) : IsPrefixRecord(GROUPED_ITEMS[k], SearchedQuery)

\* C1: when some grouped record has a normalizedName or a name token that starts
\* with the trimmed, lower-case query, search returns only such records: each
\* returned record is a grouped record that matches by prefix, whatever the other
\* records score under the similarity formula.
C1_PrefixPrecedence ==
    (Searched /\ PrefixMatchExists) =>
        \A n \in 1..Len(call.ret) :
            /\ IsPrefixRecord(call.ret[n], SearchedQuery)
            /\ \E k \in 1..Len(GROUPED_ITEMS) : GROUPED_ITEMS[k] = call.ret[n]

\* A search answered by the prefix phase while a record that does not match by
\* prefix scores higher than a returned record, and above the threshold.
C1_Witness ==
    /\ Searched
    /\ PrefixMatchExists
    /\ call.ret # << >>
    /\ \E k \in 1..Len(GROUPED_ITEMS) :
          /\ ~IsPrefixRecord(GROUPED_ITEMS[k], SearchedQuery)
          /\ AtLeastTenths(similarity(SearchedQuery, GROUPED_ITEMS[k]._normName), 6)
          /\ Greater(similarity(SearchedQuery, GROUPED_ITEMS[k]._normName),
                     similarity(SearchedQuery, call.ret[1]._normName))

\* The scenario of the typo: the query is "crcuit" and the only grouped record is
\* "circuit board".
TypoScenario ==
    /\ Searched
    /\ SearchedQuery = <<"c", "r", "c", "u", "i", "t">>
    /\ Len(GROUPED_ITEMS) = 1
    /\ GROUPED_ITEMS[1]._normName = <<"c", "i", "r", "c", "u", "i", "t", " ", "b", "o", "a", "r", "d">>

C4_CappedAndDeduplicated ==
    Searched =>
        /\ Len(call.ret) <= SearchedCap
        /\ \A m, n \in 1..Len(call.ret) :
              call.ret[m]._normName = call.ret[n]._normName => m = n

-----------------------------------------------------------------------------
(* The page: main, loadData, doSearch, the input listener and toggleFilter *)

\* setResultsMessage(text, type) and resultsEl.innerHTML = ""
ResultsCleared == [kind |-> "empty", text |-> EmptyStr, list |-> << >>]

ResultsMessage(text, type) ==
    IF text = EmptyStr THEN ResultsCleared
    ELSE [kind |-> IF type = "error" THEN "error" ELSE "message", text |-> text, list |-> << >>]

NoMatchesPrefix == <<"N", "o", " ", "m", "a", "t", "c", "h", "e", "s", " ", "f", "o", "u", "n", "d", " ", "f", "o", "r", " ">>

\* renderResults(list, q): one card for each record of the list, in its order
renderResults(list, q) ==
    IF Len(list) = 0
    THEN ResultsMessage(NoMatchesPrefix \o <<DQ>> \o q \o <<DQ, ".">>, "error")
    ELSE [kind |-> "results", text |-> EmptyStr, list |-> list]

\* doSearch without its test of dataLoaded.
doSearchResultsUngated(q, activeKey) ==
    IF trim(q) = EmptyStr THEN ResultsCleared
    ELSE renderResults(applyActiveFilter(search(q, DefaultMaxResults), activeKey), q)

\* What doSearch leaves in the results element when the input holds q and
\* activeKey is the active filter key.
doSearchResults(q, activeKey) ==
    IF trim(q) = EmptyStr THEN ResultsCleared
    ELSE IF ~dataLoaded
         THEN IF ~loadFailed THEN ResultsMessage(<<"S", "t", "i", "l", "l", " ", "l", "o", "a", "d", "i", "n", "g", " ", "d", "a", "t", "a", ".", ".", ".">>, "")
              ELSE resultsEl
         ELSE renderResults(applyActiveFilter(search(q, DefaultMaxResults), activeKey), q)

\* doSearch() of main, reading q from the input
doSearch(q, activeKey) ==
    /\ lastQuery' = q
    /\ resultsEl' = doSearchResults(q, activeKey)

\* activeFilterKey = activeFilterKey === key ? "" : key
toggledKeyNeverClears(activeKey, key) == key

toggledKeyClearsAny(activeKey, key) == IF activeKey # EmptyStr THEN EmptyStr ELSE key

toggledKey(activeKey, key) == IF activeKey = key THEN EmptyStr ELSE key

\* The last two operations of the user, each with the filter key active before it
\* and whether the data was loaded when it happened.
Remember(op, arg, badge) ==
    hist' = (IF hist = << >> THEN << >> ELSE <<hist[Len(hist)]>>)
            \o <<[op |-> op, arg |-> arg, active |-> activeFilterKey,
                  loaded |-> dataLoaded, badge |-> badge]>>

\* The digits of a fraction without its trailing zeros.
RECURSIVE stripTrailingZeros(_)
stripTrailingZeros(s) ==
    IF s # << >> /\ s[Len(s)] = "0" THEN stripTrailingZeros(SubSeq(s, 1, Len(s) - 1)) ELSE s

\* String(Number(text)) when Number(text) is finite and above zero, for a text
\* that is an unsigned decimal numeral (digits, with an optional point and
\* digits); the empty string otherwise. Numerals with an exponent, a sign or a
\* radix prefix are not among the values of the model.
positiveNumberString(text) ==
    LET t == trim(text)
        dots == {p \in 1..Len(t) : t[p] = "."}
        p == IF dots = {} THEN Len(t) + 1 ELSE CHOOSE q \in dots : \A o \in dots : q <= o
        int == SubSeq(t, 1, p - 1)
        frac == stripTrailingZeros(SubSeq(t, p + 1, Len(t)))
    IN  IF /\ Cardinality(dots) <= 1
           /\ \A i \in 1..Len(t) : t[i] \in Digits \cup {"."}
           /\ Len(t) > Cardinality(dots)
           /\ DecimalValue(int) + DecimalValue(frac) > 0
        THEN natToString(DecimalValue(int)) \o (IF frac = << >> THEN << >> ELSE <<".">> \o frac)
        ELSE EmptyStr

\* The calls of addBadge for a card, in order: rarity, locations, value. The
\* text of the value badge is the currency sign and the number (its grouping of
\* thousands is left out).
badgeCalls(r) ==
    LET rarityLabel == Or(r.ArcRarity, r.MetaRarity)
        locations == IF r.ArcFoundIn # EmptyStr THEN splitLocations(r.ArcFoundIn)
                     ELSE IF Len(r.LocationList) > 0 THEN r.LocationList
                     ELSE <<r.LocationType>>
        number == positiveNumberString(r.ArcValue)
    IN  (IF rarityLabel # EmptyStr
         THEN <<[text |-> rarityLabel, key |-> <<"r", "a", "r", "i", "t", "y", ":">> \o normalizeFilterValue(rarityLabel)]>>
         ELSE << >>)
        \o [k \in 1..Len(locations) |->
               [text |-> locations[k],
                key |-> <<"l", "o", "c", "a", "t", "i", "o", "n", ":">> \o normalizeFilterValue(locations[k])]]
        \o (IF number # EmptyStr
            THEN <<[text |-> <<"$">> \o number, key |-> <<"v", "a", "l", "u", "e", ":">> \o normalizeFilterValue(number)]>>
            ELSE IF r.ArcValue # EmptyStr
                 THEN <<[text |-> r.ArcValue, key |-> <<"v", "a", "l", "u", "e", ":">> \o normalizeFilterValue(r.ArcValue)]>>
                 ELSE << >>)

\* The filter keys of the badges addBadge appends to a card: a call with an empty
\* text or with the text of an earlier badge, trimmed and lower-cased, appends none.
badgeKeys(r) ==
    {badgeCalls(r)[k].key :
        k \in {i \in 1..Len(badgeCalls(r)) :
                  /\ badgeCalls(r)[i].text # EmptyStr
                  /\ \A j \in 1..(i - 1) :
                        \/ badgeCalls(r)[j].text = EmptyStr
                        \/ toLowerCase(trim(badgeCalls(r)[j].text))
                             # toLowerCase(trim(badgeCalls(r)[i].text))}}

\* The filter keys of the badges of the cards rendered.
renderedBadgeKeys == UNION {badgeKeys(resultsEl.list[n]) : n \in 1..Len(resultsEl.list)}

\* jsonData.data.forEach: JSON_DATA_MAP.set(name, item) for every item with a name
jsonName(item) == toLowerCase(trim(item.name))

fillJsonMap(map, data) ==
    LET named == {k \in 1..Len(data) : jsonName(data[k]) # EmptyStr}
    IN  [n \in DOMAIN map \cup {jsonName(data[k]) : k \in named} |->
            IF \E k \in named : jsonName(data[k]) = n
            THEN data[CHOOSE k \in named :
                        /\ jsonName(data[k]) = n
                        /\ \A j \in named : jsonName(data[j]) = n => j <= k]
            ELSE map[n]]

\* The bodies the two responses can carry.
PageCsvTexts ==
    {join(<<<<"N", "a", "m", "e", ",", "C", "a", "t", "e", "g", "o", "r", "y", ",", "A", "r", "c", "R", "a", "r", "i", "t", "y">>, <<"I", "r", "o", "n", " ", "O", "r", "e", ",", "O", "r", "e", ",", "R", "a", "r", "e">>, <<"I", "r", "o", "n", " ", "B", "a", "r", ",", "M", "e", "t", "a", "l", ",", "R", "a", "r", "e">>,
            <<"C", "o", "a", "l", ",", "O", "r", "e", ",", "C", "o", "m", "m", "o", "n">>, <<"i", "r", "o", "n", " ", "o", "r", "e", ",", "M", "i", "n", "e", "r", "a", "l", ",">>>>, <<LF>>),
     join(<<<<"N", "a", "m", "e", ",", "C", "a", "t", "e", "g", "o", "r", "y">>, <<"C", "o", "a", "l", ",", "O", "r", "e">>>>, <<CR, LF>>),
     join(<<<<"N", "a", "m", "e", ",", "C", "a", "t", "e", "g", "o", "r", "y", ",", "A", "r", "c", "F", "o", "u", "n", "d", "I", "n", ",", "A", "r", "c", "V", "a", "l", "u", "e">>, <<"C", "o", "g", ",", "G", "e", "a", "r", ",", "D", "a", "m", ",", "1", ".", "0">>>>, <<LF>>)}

PageJsonData ==
    {<< >>,
     <<[name |-> <<" ", "I", "r", "o", "n", " ", "O", "r", "e", " ">>, icon |-> <<"o", "r", "e", ".", "p", "n", "g">>, weight |-> <<"2">>, stackSize |-> EmptyStr],
       [name |-> EmptyStr, icon |-> <<"x", ".", "p", "n", "g">>, weight |-> EmptyStr, stackSize |-> EmptyStr]>>}

\* What the user types, and the keys toggleFilter is called with.
TypedValues == {EmptyStr, <<" ">>, <<"I", "r", "o", "n">>, <<"o", "r", "e", " ", "i", "r", "o", "n">>, <<"c", "o">>}

ToggleKeys == {<<"c", "a", "t", "e", "g", "o", "r", "y", ":", "o", "r", "e">>, <<"r", "a", "r", "i", "t", "y", ":", "r", "a", "r", "e">>, <<"r", "a", "r", "i", "t", "y", ":", "e", "p", "i", "c">>}

Init ==
    /\ call = NoCall
    /\ NoData
    /\ PageStart

\* main() up to its await: the input is disabled and loadData issues the two fetches.
MainStart ==
    /\ pc = "start"
    /\ pc' = "fetching"
    /\ qEl' = [qEl EXCEPT !.disabled = TRUE]
    /\ UNCHANGED <<call, csvFetch, jsonFetch, csvText, jsonData, ITEMS, GROUPED_ITEMS,
                   JSON_DATA_MAP, dataLoaded, loadFailed, activeFilterKey, lastQuery,
                   triggerSearch, resultsEl, hist>>

\* fetch("items.csv") settles: a response that is ok or not, or a rejection.
CsvResponds ==
    /\ pc # "start"
    /\ csvFetch = "pending"
    /\ csvFetch' \in {"ok", "http_error", "rejected"}
    /\ UNCHANGED <<call, pc, jsonFetch, csvText, jsonData, ITEMS, GROUPED_ITEMS,
                   JSON_DATA_MAP, dataLoaded, loadFailed, activeFilterKey, lastQuery,
                   triggerSearch, qEl, resultsEl, hist>>

\* fetch("items.json") settles.
JsonResponds ==
    /\ pc # "start"
    /\ jsonFetch = "pending"
    /\ jsonFetch' \in {"ok", "http_error", "rejected"}
    /\ UNCHANGED <<call, pc, csvFetch, csvText, jsonData, ITEMS, GROUPED_ITEMS,
                   JSON_DATA_MAP, dataLoaded, loadFailed, activeFilterKey, lastQuery,
                   triggerSearch, qEl, resultsEl, hist>>

\* The catch branch of main and the statements after it: the message is shown,
\* loadFailed is set, the listeners and triggerSearch are registered. The input
\* stays disabled.
LoadFails(message) ==
    /\ pc' = "failed"
    /\ resultsEl' = ResultsMessage(message, "error")
    /\ loadFailed' = TRUE
    /\ qEl' = [qEl EXCEPT !.listening = TRUE]
    /\ triggerSearch' = "doSearch"
    /\ UNCHANGED <<call, csvFetch, jsonFetch, csvText, jsonData, ITEMS, GROUPED_ITEMS,
                   JSON_DATA_MAP, dataLoaded, activeFilterKey, lastQuery, hist>>

\* Promise.all of the two fetches rejects as soon as one of them rejects.
FetchRejected ==
    /\ pc = "fetching"
    /\ csvFetch = "rejected" \/ jsonFetch = "rejected"
    /\ LoadFails(<<"F", "a", "i", "l", "e", "d", " ", "t", "o", " ", "f", "e", "t", "c", "h">>)

\* Promise.all of the two fetches resolves; a response that is not ok throws.
ResponsesChecked ==
    /\ pc = "fetching"
    /\ csvFetch \in {"ok", "http_error"}
    /\ jsonFetch \in {"ok", "http_error"}
    /\ IF csvFetch # "ok" THEN LoadFails(<<"F", "a", "i", "l", "e", "d", " ", "t", "o", " ", "l", "o", "a", "d", " ", "C", "S", "V", " ", "(", "4", "0", "4", ")">>)
       ELSE IF jsonFetch # "ok" THEN LoadFails(<<"F", "a", "i", "l", "e", "d", " ", "t", "o", " ", "l", "o", "a", "d", " ", "J", "S", "O", "N", " ", "(", "4", "0", "4", ")">>)
       ELSE /\ pc' = "reading"
            /\ UNCHANGED <<call, csvFetch, jsonFetch, csvText, jsonData, ITEMS,
                           GROUPED_ITEMS, JSON_DATA_MAP, dataLoaded, loadFailed,
                           activeFilterKey, lastQuery, triggerSearch, qEl, resultsEl, hist>>

\* csvRes.text() or jsonRes.json() rejects.
BodyFails ==
    /\ pc = "reading"
    /\ LoadFails(<<"U", "n", "e", "x", "p", "e", "c", "t", "e", "d", " ", "e", "n", "d", " ", "o", "f", " ", "J", "S", "O", "N", " ", "i", "n", "p", "u", "t">>)

\* Both bodies are read: loadData fills JSON_DATA_MAP, decodes, normalizes and
\* aggregates; main sets dataLoaded, enables the input, clears the message and
\* registers the listeners and triggerSearch.
BodiesRead ==
    /\ pc = "reading"
    /\ csvText' \in PageCsvTexts
    /\ jsonData' \in PageJsonData
    /\ JSON_DATA_MAP' = fillJsonMap(JSON_DATA_MAP, jsonData')
    /\ ITEMS' = toObjects(parseCSV(csvText'))
    /\ GROUPED_ITEMS' = aggregateItems(ITEMS', JSON_DATA_MAP')
    /\ dataLoaded' = TRUE
    /\ qEl' = [qEl EXCEPT !.disabled = FALSE, !.listening = TRUE]
    /\ resultsEl' = ResultsMessage(EmptyStr, "")
    /\ triggerSearch' = "doSearch"
    /\ pc' = "ready"
    /\ UNCHANGED <<call, csvFetch, jsonFetch, loadFailed, activeFilterKey, lastQuery, hist>>

\* The user edits the input, which is possible while it is not disabled; the
\* input listener, once registered, calls doSearch if dataLoaded.
TypeInput ==
    /\ ~qEl.disabled
    /\ \E v \in TypedValues :
          /\ qEl' = [qEl EXCEPT !.value = v]
          /\ Remember("input", v, FALSE)
          /\ IF qEl.listening /\ dataLoaded
             THEN doSearch(v, activeFilterKey)
             ELSE UNCHANGED <<lastQuery, resultsEl>>
    /\ UNCHANGED <<call, pc, csvFetch, jsonFetch, csvText, jsonData, ITEMS, GROUPED_ITEMS,
                   JSON_DATA_MAP, dataLoaded, loadFailed, activeFilterKey, triggerSearch>>

\* toggleFilter(key), called directly.
toggleFilter ==
    /\ pc # "start"
    /\ \E key \in ToggleKeys :
          /\ activeFilterKey' = toggledKey(activeFilterKey, key)
          /\ Remember("toggleFilter", key, FALSE)
          /\ IF triggerSearch = "doSearch"
             THEN doSearch(qEl.value, activeFilterKey')
             ELSE UNCHANGED <<lastQuery, resultsEl>>
    /\ UNCHANGED <<call, pc, csvFetch, jsonFetch, csvText, jsonData, ITEMS, GROUPED_ITEMS,
                   JSON_DATA_MAP, dataLoaded, loadFailed, triggerSearch, qEl>>

\* The click listener of a badge on a rendered card: toggleFilter(key) with the
\* key of the badge.
BadgeClicked ==
    /\ resultsEl.kind = "results"
    /\ \E key \in renderedBadgeKeys :
          /\ activeFilterKey' = toggledKey(activeFilterKey, key)
          /\ Remember("toggleFilter", key, TRUE)
          /\ IF triggerSearch = "doSearch"
             THEN doSearch(qEl.value, activeFilterKey')
             ELSE UNCHANGED <<lastQuery, resultsEl>>
    /\ UNCHANGED <<call, pc, csvFetch, jsonFetch, csvText, jsonData, ITEMS, GROUPED_ITEMS,
                   JSON_DATA_MAP, dataLoaded, loadFailed, triggerSearch, qEl>>

Next ==
    \/ MainStart
    \/ CsvResponds
    \/ JsonResponds
    \/ FetchRejected
    \/ ResponsesChecked
    \/ BodyFails
    \/ BodiesRead
    \/ TypeInput
    \/ toggleFilter
    \/ BadgeClicked

Spec == Init /\ [][Next]_vars

-----------------------------------------------------------------------------
(* Properties of the page *)

\* renderResults has run: the results element holds cards, or the message that
\* nothing matched the query.
Served ==
    \/ resultsEl.kind = "results"
    \/ resultsEl.kind = "error" /\ startsWith(resultsEl.text, NoMatchesPrefix)

\* Both fetches succeeded and GROUPED_ITEMS is the aggregation of the decoded,
\* normalized body of items.csv with the metadata of items.json.
LoadCompleted ==
    /\ pc = "ready"
    /\ csvFetch = "ok"
    /\ jsonFetch = "ok"
    /\ dataLoaded
    /\ ~loadFailed
    /\ JSON_DATA_MAP = fillJsonMap(<< >>, jsonData)
    /\ ITEMS = toObjects(parseCSV(csvText))
    /\ GROUPED_ITEMS = aggregateItems(ITEMS, JSON_DATA_MAP)

FetchFailed ==
    \/ csvFetch \in {"http_error", "rejected"}
    \/ jsonFetch \in {"http_error", "rejected"}

\* C3: results are rendered, and dataLoaded is set, only when both fetches have
\* succeeded and decoding, normalization and aggregation have completed; when a
\* fetch has failed dataLoaded is never set and nothing is rendered; the state
\* the page enters on a failed load (loadFailed) is never left, and no step taken
\* in it, input event or toggleFilter, renders results.
C3_QueryGating ==
    /\ [](Served => LoadCompleted)
    /\ [](dataLoaded => LoadCompleted)
    /\ [](FetchFailed => ~dataLoaded /\ ~Served)
    /\ [](loadFailed <=> pc = "failed")
    /\ [][loadFailed => loadFailed' /\ ~dataLoaded' /\ ~Served']_vars

\* toggleFilter has run doSearch on a query in the failed state, and nothing is
\* rendered.
C3_Witness ==
    /\ pc = "failed"
    /\ FetchFailed
    /\ hist # << >>
    /\ hist[Len(hist)].op = "toggleFilter"
    /\ trim(qEl.value) # EmptyStr
    /\ lastQuery = qEl.value
    /\ ~Served

\* The last two operations were toggleFilter(k) and toggleFilter(k).
TogglePair ==
    /\ Len(hist) = 2
    /\ hist[1].op = "toggleFilter"
    /\ hist[2].op = "toggleFilter"
    /\ hist[1].arg = hist[2].arg

\* The last operation was a toggleFilter that searched the loaded data for a query.
LastToggleSearched ==
    /\ hist # << >>
    /\ hist[Len(hist)].op = "toggleFilter"
    /\ hist[Len(hist)].loaded
    /\ trim(qEl.value) # EmptyStr

Unfiltered == renderResults(search(qEl.value, DefaultMaxResults), qEl.value)

FilteredBy(key) ==
    renderResults(SelectSeq(search(qEl.value, DefaultMaxResults),
                            LAMBDA r : key \in r.FilterKeys), qEl.value)

\* C5 as stated: after toggleFilter(k) twice in succession, whatever the filter
\* state before, no key is active and the results rendered for the query are the
\* unfiltered results of search.
C5_TogglePairClears ==
    TogglePair =>
        /\ activeFilterKey = EmptyStr
        /\ LastToggleSearched => resultsEl = Unfiltered

\* C5: after toggleFilter(k) twice in succession from a state where k was not the
\* active key, no key is active and the results rendered for the query are the
\* unfiltered results of search; from a state where k was the active key, k is
\* active again and the results are those filtered by k.
C5_TogglePairClearsUnlessActive ==
    TogglePair =>
        IF hist[1].active = hist[1].arg
        THEN /\ activeFilterKey = hist[1].arg
             /\ LastToggleSearched => resultsEl = FilteredBy(hist[1].arg)
        ELSE /\ activeFilterKey = EmptyStr
             /\ LastToggleSearched => resultsEl = Unfiltered

\* Another key was active before the pair, and the unfiltered results rendered
\* after it hold a record without the toggled key.
C5_Witness ==
    /\ TogglePair
    /\ LastToggleSearched
    /\ hist[1].active \notin {EmptyStr, hist[1].arg}
    /\ activeFilterKey = EmptyStr
    /\ resultsEl.kind = "results"
    /\ \E n \in 1..Len(resultsEl.list) : hist[1].arg \notin resultsEl.list[n].FilterKeys

\* The keys toggleFilter can have been called with: those of direct calls and
\* those of the badges of the grouped records.
CalledKeys == ToggleKeys \cup UNION {badgeKeys(GROUPED_ITEMS[n]) : n \in 1..Len(GROUPED_ITEMS)}

\* C6: the active filter is one key or none; after toggleFilter(k) called while
\* the active key was not k, the active key is k and the rendered results are the
\* records of search(q) whose FilterKeys contain k, in the order of search.
C6_SingleActiveKey ==
    /\ activeFilterKey \in CalledKeys \cup {EmptyStr}
    /\ (hist # << >> /\ hist[Len(hist)].op = "toggleFilter"
           /\ hist[Len(hist)].active # hist[Len(hist)].arg) =>
          /\ activeFilterKey = hist[Len(hist)].arg
          /\ LastToggleSearched => resultsEl = FilteredBy(hist[Len(hist)].arg)

\* Key j was active when toggleFilter(k) was called, and the results rendered
\* hold a record with k and j and a record with k and without j.
C6_Witness ==
    /\ LastToggleSearched
    /\ hist[Len(hist)].active \notin {EmptyStr, hist[Len(hist)].arg}
    /\ activeFilterKey = hist[Len(hist)].arg
    /\ resultsEl.kind = "results"
    /\ \E m, n \in 1..Len(resultsEl.list) :
          /\ hist[Len(hist)].active \in resultsEl.list[m].FilterKeys
          /\ hist[Len(hist)].active \notin resultsEl.list[n].FilterKeys

-----------------------------------------------------------------------------
(* Properties of the filter index and of the fan-out of locations *)

\* The keys of a set that start with a prefix
KeysOfType(keys, prefix) == {k \in keys : startsWith(k, prefix)}

\* C11: for every grouped record aggregateItems returns, the keys "category:x" of
\* its FilterKeys are exactly the keys made of the non-empty trimmed, lower-case
\* Category values of the rows with the record's normalizedName.
C11_CategoryIndexExact ==
    Aggregated =>
        \A g \in Range(call.ret) :
            KeysOfType(g.FilterKeys, <<"c", "a", "t", "e", "g", "o", "r", "y", ":">>)
              = {<<"c", "a", "t", "e", "g", "o", "r", "y", ":">> \o toLowerCase(trim(call.args[1][k].Category)) :
                    k \in {j \in Contributing(call.args[1], g) :
                              toLowerCase(trim(call.args[1][j].Category)) # EmptyStr}}

\* Two grouped records, one indexed under a padded category that the other one,
\* indexed under another category, does not have.
C11_Witness ==
    /\ Aggregated
    /\ \E g, h \in Range(call.ret) :
          /\ <<"c", "a", "t", "e", "g", "o", "r", "y", ":", "o", "r", "e">> \in g.FilterKeys
          /\ <<"c", "a", "t", "e", "g", "o", "r", "y", ":", "o", "r", "e">> \notin h.FilterKeys
          /\ <<"c", "a", "t", "e", "g", "o", "r", "y", ":", "m", "e", "t", "a", "l">> \in h.FilterKeys
          /\ \E k \in Contributing(call.args[1], g) : call.args[1][k].Category = <<" ", "O", "r", "e", " ">>

Normalizing == call.fn = "toObjects" /\ call.done

\* The number of records toObjects emits for the data row at index r of a table.
EmitCount(table, r) ==
    IF Len(table[r]) = 1 /\ trim(table[r][1]) = EmptyStr THEN 0
    ELSE Max(1, Len(splitLocations(cell(table[1], table[r], <<"L", "o", "c", "a", "t", "i", "o", "n", "T", "y", "p", "e">>))))

RECURSIVE EmittedBefore(_, _)
EmittedBefore(table, r) ==
    IF r <= 2 THEN 0 ELSE EmittedBefore(table, r - 1) + EmitCount(table, r - 1)

\* The values of a list that are not empty, each once, in order of first appearance.
DistinctInOrder(list) ==
    LET firsts == {k \in 1..Len(list) :
                      list[k] # EmptyStr /\ \A j \in 1..(k - 1) : list[j] # list[k]}
    IN  [n \in 1..Cardinality(firsts) |->
            list[CHOOSE k \in firsts : Cardinality({j \in firsts : j < k}) = n - 1]]

\* The LocationType values of the rows that contribute to a grouped record, in
\* the order of the rows.
ContributedLocations(rows, g) ==
    LET ks == Contributing(rows, g)
    IN  [n \in 1..Cardinality(ks) |->
            rows[CHOOSE k \in ks : Cardinality({j \in ks : j < k}) = n - 1].LocationType]

\* toObjects emits for a data row whose LocationType splits into n > 1 tokens n
\* consecutive records, the k-th with the k-th token as LocationType, all equal
\* in every other field.
FanOutPerToken ==
    \A r \in 2..Len(call.args[1]) :
        LET tokens == splitLocations(cell(call.args[1][1], call.args[1][r], <<"L", "o", "c", "a", "t", "i", "o", "n", "T", "y", "p", "e">>))
            first == EmittedBefore(call.args[1], r) + 1
        IN  Len(tokens) > 1 =>
               /\ first + Len(tokens) - 1 <= Len(call.ret)
               /\ \A k \in 1..Len(tokens) :
                     /\ call.ret[first + k - 1].LocationType = tokens[k]
                     /\ [call.ret[first + k - 1] EXCEPT !.LocationType = EmptyStr]
                          = [call.ret[first] EXCEPT !.LocationType = EmptyStr]
                     /\ call.ret[first + k - 1].Name
                          = cell(call.args[1][1], call.args[1][r], <<"N", "a", "m", "e">>)

\* aggregateItems returns one grouped record for each normalizedName; its
\* LocationList holds the distinct locations of its rows in order of first
\* appearance, and its FilterKeys the key of each of them.
LocationsMerged ==
    /\ \A m, n \in 1..Len(call.ret) :
          call.ret[m]._normName = call.ret[n]._normName => m = n
    /\ \A k \in 1..Len(call.args[1]) :
          \E g \in Range(call.ret) : k \in Contributing(call.args[1], g)
    /\ \A g \in Range(call.ret) :
          /\ g.LocationList = DistinctInOrder(ContributedLocations(call.args[1], g))
          /\ \A n \in 1..Len(g.LocationList) :
                <<"l", "o", "c", "a", "t", "i", "o", "n", ":">> \o toLowerCase(trim(g.LocationList[n])) \in g.FilterKeys

\* C12: a data row whose LocationType splits into n > 1 tokens gives n records,
\* one for each token in token order and identical otherwise, and aggregateItems
\* merges the records of a name into one grouped record whose LocationList is the
\* distinct tokens in order of first appearance and whose FilterKeys hold
\* "location:" followed by the trimmed, lower-case token, for each token.
C12_FanOutThenMerge ==
    /\ Normalizing => FanOutPerToken
    /\ Aggregated => LocationsMerged

\* One row with the locations Vault, bunker and Vault again: three records, merged
\* into one grouped record with the two locations and their keys.
C12_Witness ==
    /\ Aggregated
    /\ Len(call.args[1]) = 3
    /\ Len(call.ret) = 1
    /\ call.args[1][2].LocationType = <<"b", "u", "n", "k", "e", "r">>
    /\ call.ret[1].LocationList = <<<<"V", "a", "u", "l", "t">>, <<"b", "u", "n", "k", "e", "r">>>>
    /\ {<<"l", "o", "c", "a", "t", "i", "o", "n", ":", "v", "a", "u", "l", "t">>, <<"l", "o", "c", "a", "t", "i", "o", "n", ":", "b", "u", "n", "k", "e", "r">>} \subseteq call.ret[1].FilterKeys

-----------------------------------------------------------------------------
(* aggregateItems applied to its own output *)

Reaggregated == call.fn = "aggregateItems again" /\ call.done

\* The fields of a grouped record that aggregateItems builds from several rows.
MergedFields ==
    {"CategoryList", "LocationList", "VendorList", "SourceList", "UsageEntries",
     "FilterKeys"}

\* The list pushUnique makes of one value.
ListOfOne(value) == IF value = EmptyStr THEN << >> ELSE <<value>>

\* C13 as stated: aggregateItems applied to the grouped records it returned
\* returns the same records in the same order.
C13_Idempotent == Reaggregated => call.ret = call.args[1]

\* A grouped record came from one row and took neither weight nor stack size
\* from items.json.
FromOneRowOnly(g) ==
    /\ Cardinality(Contributing(call.args[2], g)) = 1
    /\ \A k \in Contributing(call.args[2], g) :
          /\ call.args[2][k].ArcWeightKg = g.ArcWeightKg
          /\ call.args[2][k].ArcStackSize = g.ArcStackSize

\* C13: aggregateItems applied to the grouped records it returned returns one
\* record for each of them, in the same order, equal in every field but the
\* merged lists, the usage entries and the filter keys, which it builds again
\* from the scalar fields of the grouped record alone: the lists hold the
\* record's own Category, LocationType, Vendor and Source, there is one usage
\* entry, and the category keys are that of the own Category. A grouped record
\* that came from one row and took no weight or stack size from items.json is
\* returned unchanged.
C13_RebuiltFromScalars ==
    Reaggregated =>
        /\ Len(call.ret) = Len(call.args[1])
        /\ \A n \in 1..Len(call.ret) :
              LET g == call.args[1][n]
                  h == call.ret[n]
              IN  /\ DOMAIN h = DOMAIN g
                  /\ \A f \in DOMAIN g \ MergedFields : h[f] = g[f]
                  /\ h.CategoryList = ListOfOne(g.Category)
                  /\ h.LocationList = ListOfOne(g.LocationType)
                  /\ h.VendorList = ListOfOne(g.Vendor)
                  /\ h.SourceList = ListOfOne(g.Source)
                  /\ Len(h.UsageEntries) = 1
                  /\ h.UsageEntries[1] = g.UsageEntries[1]
                  /\ KeysOfType(h.FilterKeys, <<"c", "a", "t", "e", "g", "o", "r", "y", ":">>)
                       = {<<"c", "a", "t", "e", "g", "o", "r", "y", ":">> \o toLowerCase(trim(v)) :
                             v \in {w \in {g.Category} : toLowerCase(trim(w)) # EmptyStr}}
                  /\ FromOneRowOnly(g) => h = g

\* A grouped record merged from rows with two locations and two categories comes
\* back with one of each, next to a record of one row that comes back unchanged.
C13_Witness ==
    /\ Reaggregated
    /\ \E n \in 1..Len(call.ret) :
          /\ Len(call.args[1][n].LocationList) = 2
          /\ Len(call.ret[n].LocationList) = 1
    /\ \E n \in 1..Len(call.ret) :
          /\ FromOneRowOnly(call.args[1][n])
          /\ call.ret[n] = call.args[1][n]
          /\ call.ret[n].CategoryList # << >>

-----------------------------------------------------------------------------
(* The empty query *)

BlankQuery == \A i \in 1..Len(call.args[1]) : IsSpace(call.args[1][i])

\* C14: for a query that is empty or holds only white space, search returns the
\* empty sequence, whatever the dataset and the cap.
C14_EmptyQueryEmptyResult == (Searched /\ BlankQuery) => call.ret = << >>

\* A query of white space on a dataset with records and a cap above zero.
C14_Witness ==
    /\ Searched
    /\ BlankQuery
    /\ call.args[1] # EmptyStr
    /\ Len(GROUPED_ITEMS) > 0
    /\ SearchedCap > 0
    /\ call.ret = << >>

-----------------------------------------------------------------------------
(* The badges of the cards and the filter index *)

\* The last operation was the click of a badge that searched the loaded data.
LastBadgeClickSearched == LastToggleSearched /\ hist[Len(hist)].badge

\* C15: the filter key of every badge on a rendered card is one of the FilterKeys
\* of the card's grouped record; after the click of a badge the results still
\* hold cards, and if the click left a filter active a rendered badge carries its
\* key.
C15_BadgeKeysInFilterKeys ==
    /\ \A n \in 1..Len(resultsEl.list) :
          badgeKeys(resultsEl.list[n]) \subseteq resultsEl.list[n].FilterKeys
    /\ LastBadgeClickSearched =>
          /\ resultsEl.kind = "results"
          /\ activeFilterKey # EmptyStr => activeFilterKey \in renderedBadgeKeys

=============================================================================
